---- MODULE Spec2Model ----
(***************************************************************************)
(* State-machine model of the PostgreSQL tools of bible_databases:         *)
(*   - the annotation importer  (scripts/generate_cross_references_psql.js *)
(*     in --execute mode), with its batched writer insertCrossReferences;  *)
(*   - the primary text importer (scripts/generate_postgresql_direct.js);  *)
(*   - the delete utility (delete_translation, first part of part_000).    *)
(*   - the script generator (generate_postgresql, second part of           *)
(*     part_000), which writes the SQL text of one translation to a file.  *)
(* One action is one segment of code between two awaits.  The database     *)
(* server is modelled by what a statement does to the session's view (tx)  *)
(* and to the committed contents (db).                                     *)
(***************************************************************************)
EXTENDS Integers, Sequences, FiniteSets, TLC

VARIABLES
    suite,          \* which family of tools this behaviour runs: "xref" | "text"
    srcFiles,       \* sources/extras: the cross reference files (each a sequence of refs)
    srcDoc,         \* sources/<language>/<code>/<code>.json: the books of a translation
    run,            \* number of processes started so far
    tool,           \* the running process: "none" | "annotation" | "primary" | "delete" | "generator"
    pc,             \* position of the running process
    args,           \* main's view of argv: [all, list]
    idx,            \* index of the for-of loop of main (file, translation or code)
    step,           \* index inside a fixed statement sequence (DDL) or bookIndex
    chap,           \* index of the chapter loop
    meta,           \* translationName / licenseInfo read from the README
    ids,            \* translationId, bookId, chapterId returned by the inserts
    w,              \* locals of insertCrossReferences
    totalInserted,  \* main's totalInserted
    sel,            \* delete utility: [translations, codes] listed and to delete
    log,            \* statements issued on the current client and its end(), in order
    opened,         \* clients constructed by the running process
    released,       \* client.end() invocations of the running process
    conn,           \* the current client: "none" | "new" | "open" | "ended"
    err,            \* the error caught by the catch block (NoError if none)
    thrown,         \* the error that leaves the import / reaches the top level
    failures,       \* translations whose import threw into main's catch
    exitCode,       \* -1 while running, then the process exit code
    db,             \* committed contents of the database
    tx,             \* contents as seen by the current session
    txState,        \* "none" | "open" | "aborted"
    dbAtBegin,      \* db when the current document's import started
    creds,          \* dbConfig.user and dbConfig.password are both set
    written,        \* directories and files the running process has created
    report          \* the numbers in the summary line main prints at the end

vars == <<suite, srcFiles, srcDoc, run, tool, pc, args, idx, step, chap, meta, ids, w,
          totalInserted, sel, log, opened, released, conn, err, thrown, failures,
          exitCode, db, tx, txState, dbAtBegin, creds, written, report>>

(***************************************************************************)
(* Bounds of the model                                                     *)
(***************************************************************************)
MaxRuns == 2
MaxFiles == 2

(***************************************************************************)
(* Program constants                                                       *)
(***************************************************************************)
batchSize == 100
XrefArity == 8
VerseArity == 3

NoError == <<>>
NoVerses == <<[verse |-> 0, text |-> <<"absent">>]>>
Null == <<"null">>


(***************************************************************************)
(* Inputs: the source tree                                                 *)
(***************************************************************************)
\* A cross reference file is the sequence of its refs; a ref is given by the
\* length of its to_verse array.  Row (r, t) is the pair of ref r with its
\* t-th to_verse.
FileShapes ==
    { <<>>, <<99>>, <<100>>, <<1, 100>>, <<101, 0, 99>> }

FileSets == UNION { [1..n -> FileShapes] : n \in 0..MaxFiles }

\* The value of column k of row (r, t) of file f, as a number that names where
\* it was read.  Columns 1..3 are read from ref.from_verse and column 8 from
\* ref.votes, so they do not depend on t.
Value(f, r, t, k) == ((f * 10 + r) * 1000 + t) * 10 + k
Src(f, r, t, k) == IF k \in {1, 2, 3, 8} THEN Value(f, r, 0, k) ELSE Value(f, r, t, k)

\* The flattened from_verse x to_verse pairs of a file, in source order.
RECURSIVE RowsFrom(_, _)
RowsFrom(file, r) ==
    IF r > Len(file) THEN <<>>
    ELSE [t \in 1..file[r] |-> <<r, t>>] \o RowsFrom(file, r + 1)

SourceRows(file) == RowsFrom(file, 1)

\* Verse texts: sequences of characters.
Texts == << <<"a">>, <<"AE", "b">>, <<"'">>, <<"e'">>, <<>>, Null >>
TextAt(i) == Texts[((i - 1) % Len(Texts)) + 1]
Verses(n) == [i \in 1..n |-> [verse |-> i, text |-> TextAt(i)]]
\* A chapter; present = FALSE is a chapter object without a verses array.
Chapter(c, vs) == [chapter |-> c, present |-> vs # NoVerses,
                   verses |-> IF vs = NoVerses THEN <<>> ELSE vs]
Book(n, cs) == [name |-> n, chapters |-> cs]

\* data.books of a translation file.
DocShapes ==
    { <<>>,
      << Book("Gen", <<>>) >>,
      << Book("Gen", << Chapter(1, NoVerses), Chapter(2, <<>>) >>) >>,
      << Book("Gen", << Chapter(1, Verses(3)) >>), Book("Exo", << Chapter(1, Verses(3)) >>) >>,
      << Book("Gen", << Chapter(1, Verses(2)) >>), Book("Gen", << Chapter(1, Verses(1)) >>) >>,
      << Book("Psa", << Chapter(119, Verses(101)), Chapter(120, Verses(2)) >>) >> }

Codes == {"A", "B"}
Language == "en"
Metas == { [name |-> "N1", license |-> "L1"], [name |-> "N2", license |-> "Unknown"] }
NoMeta == [name |-> "", license |-> ""]

(***************************************************************************)
(* normalizeText                                                           *)
(***************************************************************************)
\* text.replace(/AE-ligature/g, "'") on one character.
ReplaceChar(c) == IF c = "AE" THEN "'" ELSE c

\* String.prototype.normalize('NFKD') on one character: a precomposed letter
\* becomes its base letter followed by the combining mark.
Nfkd(c) == IF c = "e'" THEN <<"e", "'c">> ELSE <<c>>

RECURSIVE NfkdAll(_)
NfkdAll(s) == IF s = <<>> THEN <<>> ELSE Nfkd(Head(s)) \o NfkdAll(Tail(s))

normalizeText(text) ==
    IF text = Null \/ text = <<>> THEN <<>>
    ELSE NfkdAll([i \in 1..Len(text) |-> ReplaceChar(text[i])])


(***************************************************************************)
(* The database server                                                     *)
(***************************************************************************)
Tables == {"translation", "book", "chapter", "verse", "cross_references"}

\* Contents: the objects created by DDL, the next SERIAL value of each table
\* and the rows of each table in insertion order.  A row is [id, cols], cols
\* in column order.
EmptyDB == [objects |-> {}, next |-> [t \in Tables |-> 1], rows |-> [t \in Tables |-> <<>>]]

Stmt(kind, name, groups, params) ==
    [kind |-> kind, name |-> name, groups |-> groups, params |-> params, ok |-> TRUE]

Simple(kind) == Stmt(kind, "", <<>>, <<>>)

\* Every placeholder $i of the statement text has a parameter, and every
\* parameter is used: otherwise the server rejects the bind.
Placeholders(s) == UNION { { s.groups[g][j] : j \in 1..Len(s.groups[g]) } : g \in 1..Len(s.groups) }
WellFormed(s) == s.groups # <<>> => Placeholders(s) = 1..Len(s.params)

\* The row tuples of a multi-row VALUES list: group g with its placeholders
\* replaced by the parameters they name.
Bind(s) == [g \in 1..Len(s.groups) |-> [j \in 1..Len(s.groups[g]) |-> s.params[s.groups[g][j]]]]

\* The rows of table t of contents d, as a set.
RowSet(d, t) == { d.rows[t][i] : i \in 1..Len(d.rows[t]) }

\* INSERT INTO t VALUES ...: each row gets the next SERIAL value.
InsertRows(d, t, rs) ==
    [d EXCEPT !.rows[t] = @ \o [g \in 1..Len(rs) |-> [id |-> d.next[t] + g - 1, cols |-> rs[g]]],
              !.next[t] = @ + Len(rs)]

\* The upsert with ON CONFLICT (code) DO NOTHING.
UpsertDoNothing(d, cols) ==
    IF \E x \in RowSet(d, "translation") : x.cols[1] = cols[1]
    THEN d
    ELSE InsertRows(d, "translation", <<cols>>)

\* INSERT INTO translation ... ON CONFLICT (code) DO UPDATE SET name, language, license.
Upsert(d, cols) ==
    IF \E x \in RowSet(d, "translation") : x.cols[1] = cols[1]
    THEN [d EXCEPT !.rows["translation"] =
                [i \in 1..Len(@) |-> IF @[i].cols[1] = cols[1] THEN [@[i] EXCEPT !.cols = cols] ELSE @[i]]]
    ELSE InsertRows(d, "translation", <<cols>>)

\* The DELETE on tables whose foreign keys do not cascade.
DeleteNoCascade(d, code) ==
    LET NotIt(x) == x.cols[1] # code
    IN  [d EXCEPT !.rows["translation"] = SelectSeq(@, NotIt)]

\* DELETE FROM translation WHERE code = $1, with the ON DELETE CASCADE chain.
Delete(d, code) ==
    LET ts == { x.id : x \in { y \in RowSet(d, "translation") : y.cols[1] = code } }
        bs == { x.id : x \in { y \in RowSet(d, "book") : y.cols[1] \in ts } }
        cs == { x.id : x \in { y \in RowSet(d, "chapter") : y.cols[1] \in bs } }
        NotIn(x) == x.id \notin ts
        Keep1(x) == x.cols[1] \notin ts
        Keep2(x) == x.cols[1] \notin bs
        Keep3(x) == x.cols[1] \notin cs
    IN  [d EXCEPT !.rows["translation"] = SelectSeq(@, NotIn),
                  !.rows["book"] = SelectSeq(@, Keep1),
                  !.rows["chapter"] = SelectSeq(@, Keep2),
                  !.rows["verse"] = SelectSeq(@, Keep3)]

\* What a successful statement does to the contents the session sees.
Apply(d, s) ==
    CASE s.kind = "DDL" -> [d EXCEPT !.objects = @ \cup {s.name}]
      [] s.kind = "UPSERT" -> Upsert(d, Bind(s)[1])
      [] s.kind = "INSERT" -> InsertRows(d, s.name, Bind(s))
      [] s.kind = "DELETE" -> Delete(d, s.params[1])
      [] OTHER -> d

\* The rows a query returns: RETURNING id of the first row, or the SELECT's rows.
Returned(d, s) ==
    CASE s.kind = "UPSERT" ->
            { x.id : x \in { y \in RowSet(Apply(d, s), "translation") : y.cols[1] = s.params[1] } }
      [] s.kind = "INSERT" -> { d.next[s.name] }
      [] s.kind = "SELECT" ->
            { x.id : x \in { y \in RowSet(d, "translation") : y.cols[1] = s.params[1] } }
      [] s.kind = "LIST" -> { x.cols[1] : x \in RowSet(d, "translation") }
      [] OTHER -> {}


\* A statement can succeed only on a connected client, outside an aborted
\* transaction, with a well-formed bind and an existing table.
CanSucceed(s) ==
    /\ conn = "open"
    /\ WellFormed(s)
    /\ txState = "aborted" => s.kind \in {"ROLLBACK", "COMMIT"}
    /\ s.kind \in {"UPSERT", "INSERT", "SELECT", "LIST", "DELETE"} => s.name \in tx.objects

Outcomes(s) == IF CanSucceed(s) THEN BOOLEAN ELSE {FALSE}

\* client.query(s): the statement is sent and either succeeds or fails.
Query(s, ok) ==
    /\ log' = Append(log, [s EXCEPT !.ok = ok])
    /\ IF ~ok
       THEN /\ txState' = IF txState = "open" THEN "aborted" ELSE txState
            /\ UNCHANGED <<db, tx>>
       ELSE CASE s.kind = "BEGIN" ->
                    /\ txState' = "open"
                    /\ UNCHANGED <<db, tx>>
              [] s.kind = "COMMIT" ->
                    /\ db' = IF txState = "open" THEN tx ELSE db
                    /\ tx' = db'
                    /\ txState' = "none"
              [] s.kind = "ROLLBACK" ->
                    /\ tx' = db
                    /\ txState' = "none"
                    /\ UNCHANGED db
              [] OTHER ->
                    /\ tx' = Apply(tx, s)
                    /\ db' = IF txState = "none" THEN tx' ELSE db
                    /\ UNCHANGED txState

\* The error object of the most recent failed operation.
QueryError == <<"query", Len(log) + 1>>

\* A session end that keeps what the session had done without committing.
EndSessionKeeps ==
    /\ db' = IF txState = "none" THEN db ELSE tx
    /\ tx' = db'
    /\ txState' = "none"

\* The session ends (client.end, or the process exits): whatever it had not
\* committed is discarded by the server.
EndSession ==
    /\ tx' = db
    /\ txState' = "none"
    /\ UNCHANGED db

\* client.end(): the call is made and resolves or rejects; either way the
\* client is of no more use.
End(ok) ==
    /\ log' = Append(log, [Simple("END") EXCEPT !.ok = ok])
    /\ released' = released + 1
    /\ conn' = "ended"
    /\ EndSession

(***************************************************************************)
(* insertCrossReferences                                                   *)
(***************************************************************************)
\* The locals at entry: insertCount, values, params, paramIndex and the
\* cursors of the two for-of loops.
NewWriter ==
    [ref |-> 1, to |-> 1, values |-> <<>>, params |-> <<>>, paramIndex |-> 1, insertCount |-> 0]

Min(a, b) == IF a < b THEN a ELSE b
Max(a, b) == IF a > b THEN a ELSE b

\* Push with the two book columns (from_verse.book, to_verse.book) exchanged.
PushSwapped(x, f, k) ==
    [x EXCEPT !.values = @ \o [n \in 1..k |->
                                 [j \in 1..XrefArity |-> x.paramIndex + XrefArity * (n - 1) + j - 1]],
              !.params = @ \o [m \in 1..(XrefArity * k) |->
                                 LET c == ((m - 1) % XrefArity) + 1
                                 IN  Src(f, x.ref, x.to + ((m - 1) \div XrefArity),
                                         IF c = 1 THEN 4 ELSE IF c = 4 THEN 1 ELSE c)],
              !.paramIndex = @ + XrefArity * k,
              !.insertCount = @ + k,
              !.to = @ + k]

\* k consecutive iterations of the inner loop body up to the batch test: for
\* each to_verse a row group ($p, ..., $p+7) is pushed onto values and the
\* eight column values onto params, paramIndex += 8, insertCount++.
Push(x, f, k) ==
    [x EXCEPT !.values = @ \o [n \in 1..k |->
                                 [j \in 1..XrefArity |-> x.paramIndex + XrefArity * (n - 1) + j - 1]],
              !.params = @ \o [m \in 1..(XrefArity * k) |->
                                 Src(f, x.ref, x.to + ((m - 1) \div XrefArity),
                                     ((m - 1) % XrefArity) + 1)],
              !.paramIndex = @ + XrefArity * k,
              !.insertCount = @ + k,
              !.to = @ + k]

\* A flush that forgets paramIndex = 1.
ResetBatchKeepIndex(x) == [x EXCEPT !.values = <<>>, !.params = <<>>]

\* values = []; params = []; paramIndex = 1 after a flush.
ResetBatch(x) == [x EXCEPT !.values = <<>>, !.params = <<>>, !.paramIndex = 1]

\* The batch test with > for >=.
BatchDueOffByOne(x) == Len(x.values) > batchSize

\* if (values.length >= batchSize)
BatchDue(x) == Len(x.values) >= batchSize

\* The loops run without awaiting until a batch is due or the source is
\* exhausted.  The iterations of one ref that cannot make a batch due are
\* taken together; the test follows every single push.
RECURSIVE Fill(_, _, _)
Fill(x, f, file) ==
    IF x.ref > Len(file) THEN x
    ELSE IF x.to > file[x.ref] THEN Fill([x EXCEPT !.ref = @ + 1, !.to = 1], f, file)
    ELSE LET k == Max(1, Min(file[x.ref] - x.to + 1, batchSize - Len(x.values)))
             y == Push(x, f, k)
         IN  IF BatchDue(y) THEN y ELSE Fill(y, f, file)

InsertXref(x) ==
    Stmt("INSERT", "cross_references", x.values, x.params)


(***************************************************************************)
(* Initial state and process start                                         *)
(***************************************************************************)
src == <<suite, srcFiles, srcDoc>>
textLocals == <<meta, ids, chap, failures, dbAtBegin>>
xrefLocals == <<w, totalInserted>>
delLocals == <<sel>>
dbVars == <<db, tx, txState>>
env == <<creds, written, report>>

NoIds == [translationId |-> 0, bookId |-> 0, chapterId |-> 0]
\* The locals of the delete utility's main: translations, the codes to delete,
\* answer and confirm ("" until the prompt has been answered).
NoAnswer == [quit |-> FALSE, nums |-> <<>>]
NoSel == [translations |-> <<>>, codes |-> <<>>, answer |-> NoAnswer, confirm |-> ""]
NoReport == <<>>

\* What mkdirSync(path, { recursive: true }) leaves behind.
Dir(path) == [path |-> path, content |-> <<>>]

Init ==
    /\ suite \in {"xref", "text"}
    /\ srcFiles \in IF suite = "xref" THEN FileSets ELSE {<<>>}
    /\ srcDoc \in IF suite = "text" THEN DocShapes ELSE {<<>>}
    /\ run = 0
    /\ tool = "none"
    /\ pc = "idle"
    /\ args = [all |-> FALSE, list |-> <<>>]
    /\ idx = 1
    /\ step = 1
    /\ chap = 1
    /\ meta = NoMeta
    /\ ids = NoIds
    /\ w = NewWriter
    /\ totalInserted = 0
    /\ sel = NoSel
    /\ log = <<>>
    /\ opened = 0
    /\ released = 0
    /\ conn = "none"
    /\ err = NoError
    /\ thrown = NoError
    /\ failures = <<>>
    /\ exitCode = -1
    /\ db = EmptyDB
    /\ tx = EmptyDB
    /\ txState = "none"
    /\ dbAtBegin = EmptyDB
    /\ creds = TRUE
    /\ written = {}
    /\ report = NoReport

\* A new process: every per-process variable starts afresh, the database stays.
Fresh(t, a) ==
    /\ pc \in {"idle", "exited"}
    /\ run < MaxRuns
    /\ run' = run + 1
    /\ tool' = t
    /\ args' = a
    /\ idx' = 1
    /\ step' = 1
    /\ chap' = 1
    /\ meta' = NoMeta
    /\ ids' = NoIds
    /\ w' = NewWriter
    /\ totalInserted' = 0
    /\ sel' = NoSel
    /\ log' = <<>>
    /\ released' = 0
    /\ err' = NoError
    /\ thrown' = NoError
    /\ failures' = <<>>
    /\ exitCode' = -1
    /\ dbAtBegin' = db
    /\ report' = NoReport
    /\ UNCHANGED <<src, dbVars>>

(***************************************************************************)
(* Annotation importer: main, --execute                                    *)
(***************************************************************************)
XrefDDL ==
    << "cross_references", "idx_cross_references_from_book", "idx_cross_references_to_book",
       "idx_cross_references_from", "idx_cross_references_to" >>

ExtrasDir == <<"formats", "psql", "extras">>

\* main up to the credentials test: sqlDir is created if it is not there (it
\* is not: this importer alone creates it) and crossRefFiles is listed.
\* The importer is followed through one process: all it leaves behind is the
\* rows appended to cross_references.
XStart ==
    /\ suite = "xref"
    /\ run = 0
    /\ Fresh("annotation", [all |-> TRUE, list |-> srcFiles])
    /\ creds' \in BOOLEAN
    /\ written' = {Dir(ExtrasDir)}
    /\ opened' = 0
    /\ conn' = "none"
    /\ pc' = "x_check"

\* if (!dbConfig.user || !dbConfig.password) process.exit(1);
\* otherwise const client = new pg.Client(dbConfig).
XCheck ==
    /\ pc = "x_check"
    /\ IF creds
       THEN opened' = 1 /\ conn' = "new" /\ pc' = "x_connect" /\ UNCHANGED exitCode
       ELSE exitCode' = 1 /\ pc' = "exited" /\ UNCHANGED <<opened, conn>>
    /\ UNCHANGED <<src, env, delLocals, run, tool, args, idx, step, textLocals, xrefLocals, log,
                   released, err, thrown, dbVars>>

\* await client.connect()
XConnect ==
    /\ pc = "x_connect"
    /\ \E ok \in BOOLEAN :
        IF ok
        THEN /\ conn' = "open"
             /\ pc' = "x_begin"
             /\ UNCHANGED err
        ELSE /\ err' = <<"connect">>
             /\ pc' = "x_catch"
             /\ UNCHANGED conn
    /\ UNCHANGED <<src, env, delLocals, run, tool, args, idx, step, textLocals, xrefLocals, log, opened,
                   released, thrown, exitCode, dbVars>>

\* await client.query('BEGIN')
XBegin ==
    /\ pc = "x_begin"
    /\ \E ok \in Outcomes(Simple("BEGIN")) :
        /\ Query(Simple("BEGIN"), ok)
        /\ IF ok
           THEN pc' = "x_ddl" /\ UNCHANGED err
           ELSE pc' = "x_catch" /\ err' = QueryError
    /\ UNCHANGED <<src, env, delLocals, run, tool, args, idx, step, textLocals, xrefLocals, opened,
                   released, conn, thrown, exitCode>>

\* The CREATE TABLE IF NOT EXISTS and the four CREATE INDEX IF NOT EXISTS.
XDdl ==
    /\ pc = "x_ddl"
    /\ LET s == Stmt("DDL", XrefDDL[step], <<>>, <<>>)
       IN  \E ok \in Outcomes(s) :
            /\ Query(s, ok)
            /\ IF ~ok
               THEN pc' = "x_catch" /\ err' = QueryError /\ UNCHANGED step
               ELSE IF step < Len(XrefDDL)
               THEN step' = step + 1 /\ UNCHANGED <<pc, err>>
               ELSE step' = 1 /\ pc' = "x_file" /\ UNCHANGED err
    /\ UNCHANGED <<src, env, delLocals, run, tool, args, idx, textLocals, xrefLocals, opened,
                   released, conn, thrown, exitCode>>

\* insertCrossReferences with values, params and paramIndex kept outside the
\* function: an invocation starts with what the previous one left in them.
XOpenFileSharedBatch ==
    /\ pc = "x_file"
    /\ idx <= Len(args.list)
    /\ \E ok \in BOOLEAN :
        IF ok
        THEN /\ w' = [NewWriter EXCEPT !.values = w.values, !.params = w.params,
                                        !.paramIndex = w.paramIndex]
             /\ pc' = "x_rows"
             /\ UNCHANGED err
        ELSE /\ err' = <<"load", idx>>
             /\ pc' = "x_catch"
             /\ UNCHANGED w
    /\ UNCHANGED <<src, env, delLocals, run, tool, args, idx, step, textLocals, totalInserted, log, opened,
                   released, conn, thrown, exitCode, dbVars>>

\* insertCrossReferences(file, client) is entered: readFileSync and JSON.parse.
XOpenFile ==
    /\ pc = "x_file"
    /\ idx <= Len(args.list)
    /\ \E ok \in BOOLEAN :
        IF ok
        THEN /\ w' = NewWriter
             /\ pc' = "x_rows"
             /\ UNCHANGED err
        ELSE /\ err' = <<"load", idx>>
             /\ pc' = "x_catch"
             /\ UNCHANGED w
    /\ UNCHANGED <<src, env, delLocals, run, tool, args, idx, step, textLocals, totalInserted, log, opened,
                   released, conn, thrown, exitCode, dbVars>>

\* A flush whose rejection is caught inside the loop, which then goes on.
XFlushSwallowed ==
    /\ pc = "x_rows"
    /\ LET y == Fill(w, idx, args.list[idx])
       IN  /\ BatchDue(y)
           /\ \E ok \in Outcomes(InsertXref(y)) : Query(InsertXref(y), ok)
           /\ w' = ResetBatch(y)
    /\ UNCHANGED <<pc, err>>
    /\ UNCHANGED <<src, env, delLocals, run, tool, args, idx, step, textLocals, totalInserted, opened,
                   released, conn, thrown, exitCode>>

\* The loops run until values.length >= batchSize; the batch is sent.
XFlush ==
    /\ pc = "x_rows"
    /\ LET y == Fill(w, idx, args.list[idx])
       IN  /\ BatchDue(y)
           /\ \E ok \in Outcomes(InsertXref(y)) :
                /\ Query(InsertXref(y), ok)
                /\ IF ok
                   THEN w' = ResetBatch(y) /\ UNCHANGED <<pc, err>>
                   ELSE w' = y /\ pc' = "x_catch" /\ err' = QueryError
    /\ UNCHANGED <<src, env, delLocals, run, tool, args, idx, step, textLocals, totalInserted, opened,
                   released, conn, thrown, exitCode>>

\* insertCrossReferences without its "Insert remaining rows" block.
XTailSkipped ==
    /\ pc = "x_rows"
    /\ LET y == Fill(w, idx, args.list[idx])
       IN  /\ ~BatchDue(y)
           /\ Len(y.values) > 0
           /\ w' = y
           /\ totalInserted' = totalInserted + y.insertCount
    /\ idx' = idx + 1
    /\ pc' = "x_file"
    /\ UNCHANGED <<src, env, delLocals, run, tool, args, step, textLocals, log, opened,
                   released, conn, err, thrown, exitCode, dbVars>>

\* The loops end with rows pending: "Insert remaining rows", then return.
XTail ==
    /\ pc = "x_rows"
    /\ LET y == Fill(w, idx, args.list[idx])
       IN  /\ ~BatchDue(y)
           /\ Len(y.values) > 0
           /\ \E ok \in Outcomes(InsertXref(y)) :
                /\ Query(InsertXref(y), ok)
                /\ w' = y
                /\ IF ok
                   THEN /\ totalInserted' = totalInserted + y.insertCount
                        /\ idx' = idx + 1
                        /\ pc' = "x_file"
                        /\ UNCHANGED err
                   ELSE /\ pc' = "x_catch"
                        /\ err' = QueryError
                        /\ UNCHANGED <<totalInserted, idx>>
    /\ UNCHANGED <<src, env, delLocals, run, tool, args, step, textLocals, opened,
                   released, conn, thrown, exitCode>>

\* The loops end with nothing pending: return insertCount.
XReturn ==
    /\ pc = "x_rows"
    /\ LET y == Fill(w, idx, args.list[idx])
       IN  /\ Len(y.values) = 0
           /\ w' = y
           /\ totalInserted' = totalInserted + y.insertCount
    /\ idx' = idx + 1
    /\ pc' = "x_file"
    /\ UNCHANGED <<src, env, delLocals, run, tool, args, step, textLocals, log, opened,
                   released, conn, err, thrown, exitCode, dbVars>>

\* await client.query('COMMIT') after the last file.
XCommit ==
    /\ pc = "x_file"
    /\ idx > Len(args.list)
    /\ \E ok \in Outcomes(Simple("COMMIT")) :
        /\ Query(Simple("COMMIT"), ok)
        /\ IF ok
           THEN pc' = "x_finally" /\ UNCHANGED err
           ELSE pc' = "x_catch" /\ err' = QueryError
    /\ UNCHANGED <<src, env, delLocals, run, tool, args, idx, step, textLocals, xrefLocals, opened,
                   released, conn, thrown, exitCode>>

\* catch: the error is printed, ROLLBACK is tried and its failure swallowed.
XCatch ==
    /\ pc = "x_catch"
    /\ \E ok \in Outcomes(Simple("ROLLBACK")) : Query(Simple("ROLLBACK"), ok)
    /\ thrown' = err
    /\ pc' = "x_exit"
    /\ UNCHANGED <<src, env, delLocals, run, tool, args, idx, step, textLocals, xrefLocals, opened,
                   released, conn, err, exitCode>>

\* process.exit(1) inside the catch block: the process ends there.
XExit ==
    /\ pc = "x_exit"
    /\ exitCode' = 1
    /\ pc' = "exited"
    /\ conn' = "none"
    /\ EndSession
    /\ UNCHANGED <<src, env, delLocals, run, tool, args, idx, step, textLocals, xrefLocals, log, opened,
                   released, err, thrown>>

\* finally: await client.end().  A rejection leaves main and reaches
\* main().catch, which calls process.exit(1).
XFinally ==
    /\ pc = "x_finally"
    /\ \E ok \in BOOLEAN :
        /\ End(ok)
        /\ IF ok
           THEN exitCode' = 0 /\ UNCHANGED thrown
           ELSE exitCode' = 1 /\ thrown' = <<"end">>
    /\ pc' = "exited"
    /\ UNCHANGED <<src, env, delLocals, run, tool, args, idx, step, textLocals, xrefLocals, opened,
                   err>>

Annotation ==
    \/ XStart \/ XCheck \/ XConnect \/ XBegin \/ XDdl \/ XOpenFile \/ XFlush \/ XTail \/ XReturn
    \/ XCommit \/ XCatch \/ XExit \/ XFinally

(***************************************************************************)
(* Primary text importer: main and generatePostgreSQLDirect                *)
(***************************************************************************)
TextDDL == << "translation", "book", "chapter", "verse" >>

\* translationsToImport: --all takes the sorted directory listing, otherwise
\* the one translation chosen on the command line or at the prompt.
PrimaryArgs ==
    { [all |-> TRUE, list |-> <<"A", "B">>], [all |-> FALSE, list |-> <<"A">>] }

InsertTranslation(code, m) ==
    Stmt("UPSERT", "translation", << <<1, 2, 3, 4>> >>, <<code, m.name, Language, m.license>>)

InsertBook(translationId, book, bookIndex) ==
    Stmt("INSERT", "book", << <<1, 2, 3>> >>, <<translationId, book.name, bookIndex + 1>>)

InsertChapter(bookId, chapter) ==
    Stmt("INSERT", "chapter", << <<1, 2>> >>, <<bookId, chapter.chapter>>)

\* The verse loop binding the position in the array for verse.verse.
InsertVersesByPosition(chapterId, verses) ==
    Stmt("INSERT", "verse",
         [i \in 1..Len(verses) |-> [j \in 1..VerseArity |-> 1 + VerseArity * (i - 1) + j - 1]],
         [m \in 1..(VerseArity * Len(verses)) |->
            LET i == ((m - 1) \div VerseArity) + 1
                j == ((m - 1) % VerseArity) + 1
            IN  CASE j = 1 -> chapterId
                  [] j = 2 -> i - 1
                  [] OTHER -> normalizeText(verses[i].text)])

\* The verse loop of one chapter: a row group ($p, $p+1, $p+2) and three
\* params per verse, paramIndex starting at 1 for the chapter.
InsertVerses(chapterId, verses) ==
    Stmt("INSERT", "verse",
         [i \in 1..Len(verses) |-> [j \in 1..VerseArity |-> 1 + VerseArity * (i - 1) + j - 1]],
         [m \in 1..(VerseArity * Len(verses)) |->
            LET v == verses[((m - 1) \div VerseArity) + 1]
                j == ((m - 1) % VerseArity) + 1
            IN  CASE j = 1 -> chapterId
                  [] j = 2 -> v.verse
                  [] OTHER -> normalizeText(v.text)])

\* if (chapter.verses && chapter.verses.length > 0)
HasVerses(chapter) == chapter.present /\ Len(chapter.verses) > 0

TheId(rows) == CHOOSE i \in rows : TRUE

PStart ==
    /\ suite = "text"
    /\ \E a \in PrimaryArgs : Fresh("primary", a)
    /\ creds' \in BOOLEAN
    /\ written' = {}
    /\ opened' = 0
    /\ conn' = "none"
    /\ pc' = "p_check"

\* "Validate database config": process.exit(1) without credentials; otherwise
\* the language and the translations to import are selected.
PCheck ==
    /\ pc = "p_check"
    /\ IF creds
       THEN pc' = "p_loop" /\ UNCHANGED exitCode
       ELSE exitCode' = 1 /\ pc' = "exited"
    /\ UNCHANGED <<src, env, delLocals, run, tool, args, idx, step, textLocals, xrefLocals, log,
                   opened, released, conn, err, thrown, dbVars>>

\* for (const trans of translationsToImport): generatePostgreSQLDirect is
\* called and constructs its own Client.
PCall ==
    /\ pc = "p_loop"
    /\ idx <= Len(args.list)
    /\ opened' = opened + 1
    /\ conn' = "new"
    /\ err' = NoError
    /\ thrown' = NoError
    /\ dbAtBegin' = db
    /\ log' = <<>>
    /\ pc' = "p_connect"
    /\ UNCHANGED <<src, env, delLocals, run, tool, args, idx, step, chap, meta, ids, failures, xrefLocals,
                   released, exitCode, dbVars>>

\* The loop is over: main prints the summary and returns.
PDone ==
    /\ pc = "p_loop"
    /\ idx > Len(args.list)
    /\ report' = <<Len(args.list)>>
    /\ exitCode' = 0
    /\ pc' = "exited"
    /\ UNCHANGED <<src, creds, written, delLocals, run, tool, args, idx, step, textLocals, xrefLocals,
                   log, opened, released, conn, err, thrown, dbVars>>

\* await client.connect()
PConnect ==
    /\ pc = "p_connect"
    /\ \E ok \in BOOLEAN :
        IF ok
        THEN conn' = "open" /\ pc' = "p_load" /\ UNCHANGED err
        ELSE err' = <<"connect">> /\ pc' = "p_catch" /\ UNCHANGED conn
    /\ UNCHANGED <<src, env, delLocals, run, tool, args, idx, step, textLocals, xrefLocals, log, opened,
                   released, thrown, exitCode, dbVars>>

\* loadJson, getReadmeTitle, getLicenseInfo: the files are read or one throws.
PLoad ==
    /\ pc = "p_load"
    /\ \/ \E m \in Metas : meta' = m /\ pc' = "p_begin" /\ UNCHANGED err
       \/ err' = <<"load", idx>> /\ pc' = "p_catch" /\ UNCHANGED meta
    /\ UNCHANGED <<src, env, delLocals, run, tool, args, idx, step, chap, ids, failures, dbAtBegin,
                   xrefLocals, log, opened, released, conn, thrown, exitCode, dbVars>>

\* The import without its BEGIN: every statement commits on its own.
PBeginSkipped ==
    /\ pc = "p_begin"
    /\ pc' = "p_ddl"
    /\ step' = 1
    /\ UNCHANGED <<err, log, dbVars>>
    /\ UNCHANGED <<src, env, delLocals, run, tool, args, idx, textLocals, xrefLocals, opened,
                   released, conn, thrown, exitCode>>

\* await client.query('BEGIN')
PBegin ==
    /\ pc = "p_begin"
    /\ \E ok \in Outcomes(Simple("BEGIN")) :
        /\ Query(Simple("BEGIN"), ok)
        /\ IF ok
           THEN pc' = "p_ddl" /\ step' = 1 /\ UNCHANGED err
           ELSE pc' = "p_catch" /\ err' = QueryError /\ UNCHANGED step
    /\ UNCHANGED <<src, env, delLocals, run, tool, args, idx, textLocals, xrefLocals, opened,
                   released, conn, thrown, exitCode>>

\* The four CREATE TABLE IF NOT EXISTS.
PDdl ==
    /\ pc = "p_ddl"
    /\ LET s == Stmt("DDL", TextDDL[step], <<>>, <<>>)
       IN  \E ok \in Outcomes(s) :
            /\ Query(s, ok)
            /\ IF ~ok
               THEN pc' = "p_catch" /\ err' = QueryError /\ UNCHANGED step
               ELSE IF step < Len(TextDDL)
               THEN step' = step + 1 /\ UNCHANGED <<pc, err>>
               ELSE step' = 1 /\ pc' = "p_upsert" /\ UNCHANGED err
    /\ UNCHANGED <<src, env, delLocals, run, tool, args, idx, textLocals, xrefLocals, opened,
                   released, conn, thrown, exitCode>>

\* INSERT INTO translation ... ON CONFLICT (code) DO UPDATE ... RETURNING id
PUpsert ==
    /\ pc = "p_upsert"
    /\ LET s == InsertTranslation(args.list[idx], meta)
       IN  \E ok \in Outcomes(s) :
            /\ Query(s, ok)
            /\ IF ok
               THEN /\ ids' = [ids EXCEPT !.translationId = TheId(Returned(tx, s))]
                    /\ step' = 1
                    /\ pc' = "p_book"
                    /\ UNCHANGED err
               ELSE pc' = "p_catch" /\ err' = QueryError /\ UNCHANGED <<ids, step>>
    /\ UNCHANGED <<src, env, delLocals, run, tool, args, idx, chap, meta, failures, dbAtBegin, xrefLocals,
                   opened, released, conn, thrown, exitCode>>

\* INSERT INTO book ... RETURNING id, for data.books[bookIndex]; step is bookIndex + 1.
PBook ==
    /\ pc = "p_book"
    /\ step <= Len(srcDoc)
    /\ LET s == InsertBook(ids.translationId, srcDoc[step], step - 1)
       IN  \E ok \in Outcomes(s) :
            /\ Query(s, ok)
            /\ IF ok
               THEN /\ ids' = [ids EXCEPT !.bookId = TheId(Returned(tx, s))]
                    /\ chap' = 1
                    /\ pc' = "p_chapter"
                    /\ UNCHANGED err
               ELSE pc' = "p_catch" /\ err' = QueryError /\ UNCHANGED <<ids, chap>>
    /\ UNCHANGED <<src, env, delLocals, run, tool, args, idx, step, meta, failures, dbAtBegin, xrefLocals,
                   opened, released, conn, thrown, exitCode>>

\* INSERT INTO chapter ... RETURNING id
PChapter ==
    /\ pc = "p_chapter"
    /\ chap <= Len(srcDoc[step].chapters)
    /\ LET c == srcDoc[step].chapters[chap]
           s == InsertChapter(ids.bookId, c)
       IN  \E ok \in Outcomes(s) :
            /\ Query(s, ok)
            /\ IF ~ok
               THEN pc' = "p_catch" /\ err' = QueryError /\ UNCHANGED <<ids, chap>>
               ELSE /\ ids' = [ids EXCEPT !.chapterId = TheId(Returned(tx, s))]
                    /\ UNCHANGED err
                    /\ IF HasVerses(c)
                       THEN pc' = "p_verses" /\ UNCHANGED chap
                       ELSE chap' = chap + 1 /\ UNCHANGED pc
    /\ UNCHANGED <<src, env, delLocals, run, tool, args, idx, step, meta, failures, dbAtBegin, xrefLocals,
                   opened, released, conn, thrown, exitCode>>

\* "Batch insert verses for this chapter": one INSERT with every verse.
PVerses ==
    /\ pc = "p_verses"
    /\ LET s == InsertVerses(ids.chapterId, srcDoc[step].chapters[chap].verses)
       IN  \E ok \in Outcomes(s) :
            /\ Query(s, ok)
            /\ IF ok
               THEN chap' = chap + 1 /\ pc' = "p_chapter" /\ UNCHANGED err
               ELSE pc' = "p_catch" /\ err' = QueryError /\ UNCHANGED chap
    /\ UNCHANGED <<src, env, delLocals, run, tool, args, idx, step, meta, ids, failures, dbAtBegin,
                   xrefLocals, opened, released, conn, thrown, exitCode>>

\* The chapters of the book are done: the progress line, then the next book.
PBookDone ==
    /\ pc = "p_chapter"
    /\ chap > Len(srcDoc[step].chapters)
    /\ step' = step + 1
    /\ pc' = "p_book"
    /\ UNCHANGED <<src, env, delLocals, run, tool, args, idx, textLocals, xrefLocals, log, opened,
                   released, conn, err, thrown, exitCode, dbVars>>

\* The import without its COMMIT.
PCommitSkipped ==
    /\ pc = "p_book"
    /\ step > Len(srcDoc)
    /\ pc' = "p_finally"
    /\ UNCHANGED <<err, log, dbVars>>
    /\ UNCHANGED <<src, env, delLocals, run, tool, args, idx, step, textLocals, xrefLocals, opened,
                   released, conn, thrown, exitCode>>

\* await client.query('COMMIT')
PCommit ==
    /\ pc = "p_book"
    /\ step > Len(srcDoc)
    /\ \E ok \in Outcomes(Simple("COMMIT")) :
        /\ Query(Simple("COMMIT"), ok)
        /\ IF ok
           THEN pc' = "p_finally" /\ UNCHANGED err
           ELSE pc' = "p_catch" /\ err' = QueryError
    /\ UNCHANGED <<src, env, delLocals, run, tool, args, idx, step, textLocals, xrefLocals, opened,
                   released, conn, thrown, exitCode>>

\* A catch block whose ROLLBACK is not guarded: its failure replaces the error.
PCatchRollbackError ==
    /\ pc = "p_catch"
    /\ \E ok \in Outcomes(Simple("ROLLBACK")) :
        /\ Query(Simple("ROLLBACK"), ok)
        /\ err' = IF ok THEN err ELSE QueryError
    /\ pc' = "p_finally"
    /\ UNCHANGED <<src, env, delLocals, run, tool, args, idx, step, textLocals, xrefLocals, opened,
                   released, conn, thrown, exitCode>>

\* catch (error): ROLLBACK is tried, its failure swallowed; then throw error.
PCatch ==
    /\ pc = "p_catch"
    /\ \E ok \in Outcomes(Simple("ROLLBACK")) : Query(Simple("ROLLBACK"), ok)
    /\ pc' = "p_finally"
    /\ UNCHANGED <<src, env, delLocals, run, tool, args, idx, step, textLocals, xrefLocals, opened,
                   released, conn, err, thrown, exitCode>>

\* What main does with the error thrown by the import: it is printed; without
\* --all process.exit(1), with --all the loop goes on.
MainCatch(e) ==
    /\ thrown' = e
    /\ failures' = Append(failures, args.list[idx])
    /\ IF args.all
       THEN idx' = idx + 1 /\ pc' = "p_loop" /\ UNCHANGED exitCode
       ELSE exitCode' = 1 /\ pc' = "exited" /\ UNCHANGED idx

\* finally: client.end() inside its own try/catch; then the import returns
\* or the pending error reaches main's catch.
PFinally ==
    /\ pc = "p_finally"
    /\ \E ok \in BOOLEAN : End(ok)
    /\ IF err = NoError
       THEN idx' = idx + 1 /\ pc' = "p_loop" /\ UNCHANGED <<thrown, failures, exitCode>>
       ELSE MainCatch(err)
    /\ step' = 1
    /\ chap' = 1
    /\ meta' = NoMeta
    /\ ids' = NoIds
    /\ UNCHANGED <<src, env, delLocals, run, tool, args, dbAtBegin, xrefLocals, opened, err>>

Primary ==
    \/ PStart \/ PCheck \/ PCall \/ PDone \/ PConnect \/ PLoad \/ PBegin \/ PDdl \/ PUpsert \/ PBook
    \/ PChapter \/ PVerses \/ PBookDone \/ PCommit \/ PCatch \/ PFinally

(***************************************************************************)
(* Delete utility: main and deleteTranslation                              *)
(***************************************************************************)
\* process.argv.slice(2): codes to delete; none means interactive mode.
DeleteArgs == { <<>>, <<"A">>, <<"B", "Z">> }

\* The answer to "Enter selection": q, or the numbers parseInt reads.
Answers == { [quit |-> TRUE, nums |-> <<>>], [quit |-> FALSE, nums |-> <<1>>],
             [quit |-> FALSE, nums |-> <<2, 0>>], [quit |-> FALSE, nums |-> <<3>>],
             [quit |-> FALSE, nums |-> <<1, 1>>] }
Confirms == { "yes", "Y", "no" }

\* confirm.toLowerCase()
ToLowerCase(c) == IF c = "Y" THEN "y" ELSE c

\* ORDER BY code
CodeOrder == <<"A", "B", "Z">>
OrderByCode(S) == LET In(c) == c \in S IN SelectSeq(CodeOrder, In)

SelectTranslation(code) == Stmt("SELECT", "translation", <<>>, <<code>>)
DeleteStmt(code) == Stmt("DELETE", "translation", <<>>, <<code>>)
ListStmt == Stmt("LIST", "translation", <<>>, <<>>)

\* selections.filter(i => i >= 0 && i < translations.length).map(i => translations[i])
ToDelete(nums, translations) ==
    LET Valid(n) == n - 1 >= 0 /\ n - 1 < Len(translations)
        valid == SelectSeq(nums, Valid)
    IN  [i \in 1..Len(valid) |-> translations[valid[i]]]

DStart ==
    /\ suite = "text"
    /\ \E a \in DeleteArgs : Fresh("delete", [all |-> FALSE, list |-> a])
    /\ creds' \in BOOLEAN
    /\ written' = {}
    /\ opened' = 1
    /\ conn' = "new"
    /\ pc' = "d_connect"

\* await client.connect(); a failure is printed by the catch block.
DConnect ==
    /\ pc = "d_connect"
    /\ \E ok \in BOOLEAN :
        IF ok
        THEN /\ conn' = "open"
             /\ pc' = IF Len(args.list) > 0 THEN "d_check" ELSE "d_list"
             /\ sel' = [sel EXCEPT !.codes = args.list]
             /\ UNCHANGED err
        ELSE err' = <<"connect">> /\ pc' = "d_finally" /\ UNCHANGED <<conn, sel>>
    /\ UNCHANGED <<src, env, run, tool, args, idx, step, textLocals, xrefLocals, log, opened,
                   released, thrown, exitCode, dbVars>>

\* listTranslations(client)
DList ==
    /\ pc = "d_list"
    /\ \E ok \in Outcomes(ListStmt) :
        /\ Query(ListStmt, ok)
        /\ IF ~ok
           THEN err' = QueryError /\ pc' = "d_finally" /\ UNCHANGED sel
           ELSE /\ sel' = [sel EXCEPT !.translations = OrderByCode(Returned(tx, ListStmt))]
                /\ pc' = IF Len(sel'.translations) = 0 THEN "d_finally" ELSE "d_prompt"
                /\ UNCHANGED err
    /\ UNCHANGED <<src, env, run, tool, args, idx, step, textLocals, xrefLocals, opened,
                   released, conn, thrown, exitCode>>

\* The selection prompt: q cancels, no valid number cancels.
DPrompt ==
    /\ pc = "d_prompt"
    /\ \E a \in Answers :
        LET toDelete == ToDelete(a.nums, sel.translations)
        IN  IF a.quit \/ Len(toDelete) = 0
            THEN pc' = "d_finally" /\ sel' = [sel EXCEPT !.answer = a]
            ELSE pc' = "d_confirm" /\ sel' = [sel EXCEPT !.answer = a, !.codes = toDelete]
    /\ UNCHANGED <<src, env, run, tool, args, idx, step, textLocals, xrefLocals, log, opened,
                   released, conn, err, thrown, exitCode, dbVars>>

\* A confirmation prompt whose answer is not looked at.
DConfirmIgnored ==
    /\ pc = "d_confirm"
    /\ \E c \in Confirms :
        /\ sel' = [sel EXCEPT !.confirm = c]
        /\ pc' = "d_check"
    /\ UNCHANGED <<src, env, run, tool, args, idx, step, textLocals, xrefLocals, log,
                   opened, released, conn, err, thrown, exitCode, dbVars>>

\* The confirmation prompt: anything but yes / y cancels.
DConfirm ==
    /\ pc = "d_confirm"
    /\ \E c \in Confirms :
        /\ sel' = [sel EXCEPT !.confirm = c]
        /\ pc' = IF ToLowerCase(c) # "yes" /\ ToLowerCase(c) # "y" THEN "d_finally" ELSE "d_check"
    /\ UNCHANGED <<src, env, run, tool, args, idx, step, textLocals, xrefLocals, log,
                   opened, released, conn, err, thrown, exitCode, dbVars>>

\* deleteTranslation: SELECT id, name FROM translation WHERE code = $1
DCheck ==
    /\ pc = "d_check"
    /\ idx <= Len(sel.codes)
    /\ LET s == SelectTranslation(sel.codes[idx])
       IN  \E ok \in Outcomes(s) :
            /\ Query(s, ok)
            /\ IF ~ok
               THEN err' = QueryError /\ pc' = "d_finally" /\ UNCHANGED idx
               ELSE /\ UNCHANGED err
                    /\ IF Cardinality(Returned(tx, s)) = 0
                       THEN idx' = idx + 1 /\ UNCHANGED pc
                       ELSE pc' = "d_delete" /\ UNCHANGED idx
    /\ UNCHANGED <<src, env, delLocals, run, tool, args, step, textLocals, xrefLocals, opened,
                   released, conn, thrown, exitCode>>

\* deleteTranslation: DELETE FROM translation WHERE code = $1
DDelete ==
    /\ pc = "d_delete"
    /\ LET s == DeleteStmt(sel.codes[idx])
       IN  \E ok \in Outcomes(s) :
            /\ Query(s, ok)
            /\ IF ok
               THEN idx' = idx + 1 /\ pc' = "d_check" /\ UNCHANGED err
               ELSE err' = QueryError /\ pc' = "d_finally" /\ UNCHANGED idx
    /\ UNCHANGED <<src, env, delLocals, run, tool, args, step, textLocals, xrefLocals, opened,
                   released, conn, thrown, exitCode>>

\* Every code was handled.
DLoopEnd ==
    /\ pc = "d_check"
    /\ idx > Len(sel.codes)
    /\ pc' = "d_finally"
    /\ UNCHANGED <<src, env, delLocals, run, tool, args, idx, step, textLocals, xrefLocals, log,
                   opened, released, conn, err, thrown, exitCode, dbVars>>

\* finally: await client.end().  A rejection leaves main, which nothing
\* catches: the unhandled rejection ends the process with code 1, or is only
\* warned about, depending on the runtime.
DFinally ==
    /\ pc = "d_finally"
    /\ \E ok \in BOOLEAN :
        /\ End(ok)
        /\ IF ok
           THEN exitCode' = 0 /\ UNCHANGED thrown
           ELSE exitCode' \in {0, 1} /\ thrown' = <<"end">>
    /\ pc' = "exited"
    /\ UNCHANGED <<src, env, delLocals, run, tool, args, idx, step, textLocals, xrefLocals,
                   opened, err>>

DeleteTool ==
    \/ DStart \/ DConnect \/ DList \/ DPrompt \/ DConfirm \/ DCheck \/ DDelete \/ DLoopEnd
    \/ DFinally

(***************************************************************************)
(* Script generator: main and generatePostgreSQL                           *)
(***************************************************************************)
PsqlDir == <<"formats", "psql">>
SqlPath(translation) == PsqlDir \o <<translation, ".sql">>

\* escapeString: 'NULL' for null, otherwise every quote doubled.
RECURSIVE DoubleQuotes(_)
DoubleQuotes(s) ==
    IF s = <<>> THEN <<>>
    ELSE (IF Head(s) = "'" THEN <<"'", "'">> ELSE <<Head(s)>>) \o DoubleQuotes(Tail(s))

escapeString(text) == IF text = Null THEN <<"N", "U", "L", "L">> ELSE DoubleQuotes(text)

\* A name (code, title, license, language, book name) as an escaped literal.
Lit(x) == escapeString(<<x>>)

\* normalizeText of the generator: no guard, text.replace throws on null.
normalizeTextGen(text) == NfkdAll([i \in 1..Len(text) |-> ReplaceChar(text[i])])

\* One statement of the script.  key holds the literals of the sub-selects
\* that find the parent row, rows the VALUES of the statement; the INSERT
\* statements of the verses of one chapter, which share their sub-select, are
\* kept together as one entry with one row per statement.
Line(kind, name, key, rows) == [kind |-> kind, name |-> name, key |-> key, rows |-> rows]

\* The DROP TABLE, CREATE TABLE, INSERT INTO translation and CREATE INDEX part.
ScriptHead(translation, m) ==
    << Line("DROP", "verse", <<>>, <<>>),
       Line("DROP", "chapter", <<>>, <<>>),
       Line("DROP", "book", <<>>, <<>>),
       Line("DROP", "translation", <<>>, <<>>),
       Line("CREATE", "translation", <<>>, <<>>),
       Line("INSERT", "translation", <<>>,
            << <<Lit(translation), Lit(m.name), Lit(Language), Lit(m.license)>> >>),
       Line("CREATE", "book", <<>>, <<>>),
       Line("CREATE", "chapter", <<>>, <<>>),
       Line("CREATE", "verse", <<>>, <<>>),
       Line("INDEX", "idx_book_translation", <<"book">>, <<>>),
       Line("INDEX", "idx_chapter_book", <<"chapter">>, <<>>),
       Line("INDEX", "idx_verse_chapter", <<"verse">>, <<>>) >>

\* for (const chapter of book.chapters): the chapter, then its verses.
ChapterLines(translation, book, chapter) ==
    << Line("INSERT", "chapter", <<Lit(book.name), Lit(translation)>>, << <<chapter.chapter>> >>) >>
    \o (IF chapter.present /\ Len(chapter.verses) > 0
        THEN << Line("INSERT", "verse", <<Lit(book.name), chapter.chapter, Lit(translation)>>,
                     [i \in 1..Len(chapter.verses) |->
                        << chapter.verses[i].verse,
                           escapeString(normalizeTextGen(chapter.verses[i].text)) >>]) >>
        ELSE <<>>)

RECURSIVE ChaptersFrom(_, _, _)
ChaptersFrom(translation, book, c) ==
    IF c > Len(book.chapters) THEN <<>>
    ELSE ChapterLines(translation, book, book.chapters[c]) \o ChaptersFrom(translation, book, c + 1)

\* for (let bookIndex = 0; ...): the book, then its chapters.
RECURSIVE BooksFrom(_, _, _)
BooksFrom(translation, data, b) ==
    IF b > Len(data) THEN <<>>
    ELSE << Line("INSERT", "book", <<Lit(translation)>>, << <<Lit(data[b].name), b>> >>) >>
         \o ChaptersFrom(translation, data[b], 1)
         \o BooksFrom(translation, data, b + 1)

\* normalizeText(verse.text) throws a TypeError on a verse whose text is null.
Throws(data) ==
    \E b \in 1..Len(data) : \E c \in 1..Len(data[b].chapters) :
        /\ data[b].chapters[c].present
        /\ \E v \in 1..Len(data[b].chapters[c].verses) : data[b].chapters[c].verses[v].text = Null

\* sqlContent as generatePostgreSQL builds it, or the exception.
generatePostgreSQL(translation, data, m) ==
    IF Throws(data) THEN [ok |-> FALSE, lines |-> <<>>]
    ELSE [ok |-> TRUE, lines |-> ScriptHead(translation, m) \o BooksFrom(translation, data, 1)]

\* A quoted literal as the server reads it: a doubled quote is one quote.
RECURSIVE Unquote(_)
Unquote(s) ==
    IF s = <<>> THEN <<>>
    ELSE IF Len(s) >= 2 /\ s[1] = "'" /\ s[2] = "'"
    THEN <<"'">> \o Unquote(Tail(Tail(s)))
    ELSE <<Head(s)>> \o Unquote(Tail(s))

Name(lit) == Unquote(lit)[1]

\* The index the script creates on each table.
IndexOn(t) ==
    CASE t = "book" -> {"idx_book_translation"}
      [] t = "chapter" -> {"idx_chapter_book"}
      [] t = "verse" -> {"idx_verse_chapter"}
      [] OTHER -> {}

\* DROP TABLE IF EXISTS t CASCADE: the table, its rows, its sequence and its
\* indexes go (CASCADE removes the foreign keys that point to it, no rows).
DropTable(d, t) ==
    [d EXCEPT !.objects = @ \ ({t} \cup IndexOn(t)),
              !.rows[t] = <<>>,
              !.next[t] = 1]

\* (SELECT id FROM translation WHERE code = ...)
TranslationIds(d, code) ==
    { x.id : x \in { y \in RowSet(d, "translation") : y.cols[1] = code } }

\* (SELECT id FROM book WHERE name = ... AND translation_id = (SELECT ...))
BookIds(d, name, code) ==
    { x.id : x \in { y \in RowSet(d, "book") :
                        y.cols[2] = name /\ y.cols[1] \in TranslationIds(d, code) } }

\* (SELECT c.id FROM chapter c JOIN book b ON c.book_id = b.id WHERE ...)
ChapterIds(d, name, number, code) ==
    { x.id : x \in { y \in RowSet(d, "chapter") :
                        y.cols[2] = number /\ y.cols[1] \in BookIds(d, name, code) } }

\* A scalar sub-select gives a value only when it finds one row: none is
\* NULL, rejected by NOT NULL; more than one is an error.
Scalar(S) == Cardinality(S) = 1

\* One statement of the script run by psql: its effect, or none when the
\* server rejects it.
ExecLine(d, l) ==
    CASE l.kind = "DROP" -> DropTable(d, l.name)
      [] l.kind = "CREATE" ->
            IF l.name \in d.objects THEN d ELSE [d EXCEPT !.objects = @ \cup {l.name}]
      [] l.kind = "INDEX" ->
            IF l.name \in d.objects \/ l.key[1] \notin d.objects THEN d
            ELSE [d EXCEPT !.objects = @ \cup {l.name}]
      [] l.kind = "INSERT" /\ l.name = "translation" ->
            LET r == l.rows[1]
            IN  IF "translation" \notin d.objects \/ TranslationIds(d, Name(r[1])) # {} THEN d
                ELSE InsertRows(d, "translation", << <<Name(r[1]), Name(r[2]), Name(r[3]), Name(r[4])>> >>)
      [] l.kind = "INSERT" /\ l.name = "book" ->
            LET ts == TranslationIds(d, Name(l.key[1]))
            IN  IF {"translation", "book"} \subseteq d.objects /\ Scalar(ts)
                THEN InsertRows(d, "book", << <<TheId(ts), Name(l.rows[1][1]), l.rows[1][2]>> >>)
                ELSE d
      [] l.kind = "INSERT" /\ l.name = "chapter" ->
            LET bs == BookIds(d, Name(l.key[1]), Name(l.key[2]))
            IN  IF {"translation", "book", "chapter"} \subseteq d.objects /\ Scalar(bs)
                THEN InsertRows(d, "chapter", << <<TheId(bs), l.rows[1][1]>> >>)
                ELSE d
      [] l.kind = "INSERT" /\ l.name = "verse" ->
            LET cs == ChapterIds(d, Name(l.key[1]), l.key[2], Name(l.key[3]))
            IN  IF {"translation", "book", "chapter", "verse"} \subseteq d.objects /\ Scalar(cs)
                THEN InsertRows(d, "verse",
                                [i \in 1..Len(l.rows) |->
                                    <<TheId(cs), l.rows[i][1], Unquote(l.rows[i][2])>>])
                ELSE d
      [] OTHER -> d

\* psql db < file: the statements run one after the other, each in its own
\* transaction, a rejected one not stopping the next.
RECURSIVE RunScript(_, _)
RunScript(d, lines) == IF lines = <<>> THEN d ELSE RunScript(ExecLine(d, Head(lines)), Tail(lines))

\* argv of the generator: the translation and --dry-run.
GeneratorArgs ==
    { [all |-> FALSE, list |-> <<"A">>, dryRun |-> dry] : dry \in BOOLEAN }

\* main up to the call of generatePostgreSQL: arguments, language and
\* translation are settled.
GStart ==
    /\ suite = "text"
    /\ \E a \in GeneratorArgs : Fresh("generator", a)
    /\ creds' = TRUE
    /\ written' = {}
    /\ opened' = 0
    /\ conn' = "none"
    /\ pc' = "g_generate"

\* generatePostgreSQL inside main's try: the sources are read, the psql
\* directory is created if missing, the text is built and, unless dryRun,
\* written; any exception ends the process with exit code 1.
GGenerate ==
    /\ pc = "g_generate"
    /\ \/ /\ err' = <<"load", 1>>
          /\ exitCode' = 1
          /\ UNCHANGED <<written, meta>>
       \/ \E m \in Metas, exists \in BOOLEAN :
            LET g == generatePostgreSQL(args.list[1], srcDoc, m)
                made == IF exists THEN {} ELSE {Dir(PsqlDir)}
            IN  /\ meta' = m
                /\ IF ~g.ok
                   THEN /\ err' = <<"type">>
                        /\ exitCode' = 1
                        /\ written' = made
                   ELSE /\ UNCHANGED err
                        /\ exitCode' = 0
                        /\ written' = IF args.dryRun THEN made
                                      ELSE made \cup {[path |-> SqlPath(args.list[1]),
                                                       content |-> g.lines]}
    /\ pc' = "exited"
    /\ UNCHANGED <<src, creds, report, delLocals, run, tool, args, idx, step, chap, ids, failures,
                   dbAtBegin, xrefLocals, log, opened, released, conn, thrown, dbVars>>

Generator == GStart \/ GGenerate

Next == Annotation \/ Primary \/ DeleteTool \/ Generator



Spec == Init /\ [][Next]_vars


(***************************************************************************)
(* Properties of the batched writers                                       *)
(***************************************************************************)
\* The INSERT statements into table t issued on the current client.
Inserts(t) == LET Is(s) == s.kind = "INSERT" /\ s.name = t IN SelectSeq(log, Is)

\* insertCrossReferences has returned without error for the files before idx.
XReturnedOK ==
    /\ tool = "annotation"
    /\ pc \in {"x_file", "x_finally", "exited"}
    /\ err = NoError

RowCount(file) == Len(SourceRows(file))
CeilDiv(n, d) == (n + d - 1) \div d

\* ceil(L/B) statements: B rows each, the last L mod B (or B).
ExpectedSizes(L) ==
    [i \in 1..CeilDiv(L, batchSize) |->
        IF i < CeilDiv(L, batchSize) \/ L % batchSize = 0 THEN batchSize ELSE L % batchSize]

RECURSIVE ExpectedUpTo(_)
ExpectedUpTo(n) ==
    IF n = 0 THEN <<>> ELSE ExpectedUpTo(n - 1) \o ExpectedSizes(RowCount(args.list[n]))

RECURSIVE RowsUpTo(_)
RowsUpTo(n) == IF n = 0 THEN 0 ELSE RowsUpTo(n - 1) + RowCount(args.list[n])

RECURSIVE SumLen(_)
SumLen(ss) == IF ss = <<>> THEN 0 ELSE Len(Head(ss)) + SumLen(Tail(ss))

Sizes(ss) == [i \in 1..Len(ss) |-> Len(ss[i].groups)]
ParamLists(ss) == [i \in 1..Len(ss) |-> ss[i].params]

\* C1: when insertCrossReferences has returned for a file of L rows it has
\* issued ceil(L/100) insert statements, all of 100 rows but the last, which has
\* L mod 100 rows (100 if that is 0), none for L = 0, and the statements carry
\* L x 8 parameters in all.  Stated over the files processed so far.
C1_FlushCounts ==
    XReturnedOK =>
        /\ Sizes(Inserts("cross_references")) = ExpectedUpTo(idx - 1)
        /\ SumLen(ParamLists(Inserts("cross_references"))) = XrefArity * RowsUpTo(idx - 1)

C1_Witness ==
    /\ XReturnedOK
    /\ pc = "x_file"
    /\ idx = 3
    /\ Sizes(Inserts("cross_references")) = <<100, 1, 99>>

\* The rows a sequence of statements sends, in order.
RECURSIVE SentRows(_)
SentRows(ss) == IF ss = <<>> THEN <<>> ELSE Bind(Head(ss)) \o SentRows(Tail(ss))

\* The rows of file f as the tuples of their eight column values.
FileRows(f, file) ==
    LET rs == SourceRows(file)
    IN  [n \in 1..Len(rs) |-> [k \in 1..XrefArity |-> Src(f, rs[n][1], rs[n][2], k)]]

RECURSIVE SourceUpTo(_)
SourceUpTo(n) == IF n = 0 THEN <<>> ELSE SourceUpTo(n - 1) \o FileRows(n, args.list[n])

\* C2: when insertCrossReferences has returned without error, the row groups
\* of the statements it issued, concatenated in issue order, are the source
\* rows in source order: each row once, the trailing partial batch included.
C2_AllRowsInOrder ==
    XReturnedOK => SentRows(Inserts("cross_references")) = SourceUpTo(idx - 1)

C2_Witness ==
    /\ XReturnedOK
    /\ pc = "exited"
    /\ exitCode = 0
    /\ Len(args.list) = 2
    /\ Len(SentRows(Inserts("cross_references"))) = 299

Arity(t) == IF t = "cross_references" THEN XrefArity ELSE VerseArity

\* The placeholders of row group g are $(a(g-1)+1) .. $(a g) and there are
\* N x a parameters.
Sequential(s, a) ==
    /\ \A g \in 1..Len(s.groups) : s.groups[g] = [j \in 1..a |-> a * (g - 1) + j]
    /\ Len(s.params) = a * Len(s.groups)

\* C3: in every statement a batched writer sends, the placeholders are
\* $1 .. $(N x a) in order with N x a parameters, so every batch starts at $1.
C3_SequentialPlaceholders ==
    \A i \in 1..Len(log) :
        (log[i].kind = "INSERT" /\ log[i].name \in {"cross_references", "verse"})
            => Sequential(log[i], Arity(log[i].name))

C3_Witness ==
    \E i, j \in 1..Len(log) :
        /\ i < j
        /\ log[i].kind = "INSERT" /\ log[i].name = "cross_references" /\ log[i].ok
        /\ log[j].kind = "INSERT" /\ log[j].name = "cross_references" /\ log[j].ok
        /\ Len(log[i].groups) = batchSize
        /\ log[j].groups[1][1] = 1

DocRows(d, code) ==
    LET ts == { x \in RowSet(d, "translation") : x.cols[1] = code }
        bs == { x \in RowSet(d, "book") : x.cols[1] \in { t.id : t \in ts } }
        cs == { x \in RowSet(d, "chapter") : x.cols[1] \in { b.id : b \in bs } }
        vs == { x \in RowSet(d, "verse") : x.cols[1] \in { c.id : c \in cs } }
    IN  [translation |-> ts, book |-> bs, chapter |-> cs, verse |-> vs]

NoRows == [translation |-> {}, book |-> {}, chapter |-> {}, verse |-> {}]

\* generatePostgreSQLDirect has returned or thrown; log is that call's.
ImportDone == tool = "primary" /\ pc \in {"p_loop", "exited"} /\ log # <<>>
ImportFailed == ImportDone /\ thrown # NoError
LastFailed == failures[Len(failures)]

\* The annotation importer has left its catch block.
XFailed == tool = "annotation" /\ pc \in {"x_exit", "exited"} /\ thrown # NoError

\* The statement whose failure ended the call.
FirstFailure == CHOOSE i \in 1..Len(log) : ~log[i].ok /\ \A j \in 1..(i - 1) : log[j].ok

\* A statement failed after a successful BEGIN.
StartedFailure ==
    \E i \in 1..Len(log) :
        /\ ~log[i].ok
        /\ log[i].kind \notin {"BEGIN", "ROLLBACK", "END"}
        /\ \E b \in 1..(i - 1) : log[b].kind = "BEGIN" /\ log[b].ok

\* C5 as stated: after a statement failed in the import of a Document and the
\* run rolled back, no row of that Document is visible in the four tables.
C5_Original ==
    (ImportFailed /\ thrown[1] = "query") => DocRows(db, LastFailed) = NoRows

\* C5 amended: after a statement failed in the import of a Document, the rows
\* of that Document visible in the four tables are those that were committed
\* before the import began; the failed run has committed nothing.
C5_NothingCommitted ==
    (ImportFailed /\ thrown[1] = "query") =>
        DocRows(db, LastFailed) = DocRows(dbAtBegin, LastFailed)

C5_Witness ==
    /\ ImportFailed
    /\ thrown[1] = "query"
    /\ log[thrown[2]].kind = "INSERT" /\ log[thrown[2]].name = "verse"
    /\ DocRows(db, LastFailed).verse # {}

\* C6: in a run of either importer BEGIN is issued once, before every other
\* statement; COMMIT and ROLLBACK are issued only after BEGIN; COMMIT only if
\* every statement before it succeeded; nothing follows a successful COMMIT.
C6_StateMachine ==
    tool \in {"primary", "annotation"} =>
        LET IsStmt(s) == s.kind # "END"
            q == SelectSeq(log, IsStmt)
        IN  /\ Cardinality({ i \in 1..Len(q) : q[i].kind = "BEGIN" }) <= 1
            /\ \A i \in 1..Len(q) :
                  q[i].kind # "BEGIN" => \E j \in 1..(i - 1) : q[j].kind = "BEGIN"
            /\ \A i \in 1..Len(q) :
                  q[i].kind = "COMMIT" => \A j \in 1..(i - 1) : q[j].ok
            /\ \A i \in 1..Len(q) :
                  (q[i].kind = "COMMIT" /\ q[i].ok) => i = Len(q)

\* C7: when a statement failed after BEGIN, a ROLLBACK was issued after it and
\* the error that reaches the caller is that statement's error, whether or not
\* the ROLLBACK succeeded.
C7_OriginalError ==
    ((ImportFailed \/ XFailed) /\ StartedFailure) =>
        /\ \E j \in (FirstFailure + 1)..Len(log) : log[j].kind = "ROLLBACK"
        /\ thrown = <<"query", FirstFailure>>

C7_Witness ==
    /\ ImportFailed
    /\ StartedFailure
    /\ \E j \in 1..Len(log) : log[j].kind = "ROLLBACK" /\ ~log[j].ok

\* C8: when a run of either importer has ended, client.end has been called on
\* every client the run constructed.
C8_AlwaysReleased ==
    (pc = "exited" /\ tool \in {"primary", "annotation"}) => released = opened

\* C9: a rejected client.end changes nothing: it is not thrown further and
\* the importers and the delete utility end as they would have.
C9_ReleaseFailureIgnored ==
    (/\ tool \in {"primary", "annotation", "delete"}
     /\ pc \in {"p_loop", "exited"}
     /\ log # <<>>
     /\ log[Len(log)].kind = "END"
     /\ ~log[Len(log)].ok)
        => /\ thrown # <<"end">>
           /\ (tool # "primary" /\ pc = "exited") => exitCode = 0

\* C10: with --all, when the import of A committed and the import of B then
\* failed, the rows of A are as they were when the import of B began, A is
\* still there, and each import had a client of its own.
C10_IndependentTransactions ==
    (ImportFailed /\ args.all /\ failures = <<"B">>) =>
        /\ DocRows(db, "A") = DocRows(dbAtBegin, "A")
        /\ DocRows(db, "A").translation # {}
        /\ Cardinality(DocRows(db, "A").book) >= Len(srcDoc)
        /\ opened = 2
        /\ released = 2

C10_Witness ==
    /\ ImportFailed
    /\ args.all
    /\ failures = <<"B">>
    /\ thrown[1] = "query"
    /\ log[thrown[2]].kind = "INSERT" /\ log[thrown[2]].name = "verse"
    /\ DocRows(db, "A").verse # {}
    /\ DocRows(db, "B") = NoRows

(***************************************************************************)
(* Properties of the loops over documents and files                        *)
(***************************************************************************)
\* C11: with --all the primary importer attempts every translation once, a
\* failure does not stop the loop, and the summary gives the numbers of
\* translations imported and failed; without --all the first failure ends the
\* process with exit code 1 and nothing more is attempted.
C11_BatchPolicy ==
    /\ (tool = "primary" /\ pc = "exited" /\ creds /\ args.all) =>
          /\ exitCode = 0
          /\ opened = Len(args.list)
          /\ report = <<Len(args.list) - Len(failures), Len(failures)>>
    /\ (tool = "primary" /\ ~args.all /\ failures # <<>>) =>
          /\ pc = "exited"
          /\ exitCode = 1
          /\ opened = 1

\* The import of the file at idx failed: it could not be read, or one of its
\* insert statements was rejected.
FileFailed ==
    /\ tool = "annotation"
    /\ pc = "exited"
    /\ err # NoError
    /\ \/ err[1] = "load"
       \/ err[1] = "query" /\ log[err[2]].kind = "INSERT"

\* C12: when the import of one reference file fails, the annotation importer
\* goes on with the remaining files and the rows of the files that imported
\* are committed.
C12_FileFailureIsolated ==
    FileFailed =>
        Len(db.rows["cross_references"]) = RowsUpTo(Len(args.list)) - RowCount(args.list[idx])

(***************************************************************************)
(* Properties of the rows the importers leave                              *)
(***************************************************************************)
\* generatePostgreSQLDirect has committed the translation at idx.
Committed == tool = "primary" /\ pc = "p_finally" /\ err = NoError

\* C13: there is never more than one translation row for a code; when an
\* import of a code has committed, the row of that code has the name,
\* language and license of this import, and the id it had before the import
\* if the code was there already.
C13_UpsertIdempotent ==
    /\ \A x, y \in RowSet(db, "translation") : x.cols[1] = y.cols[1] => x = y
    /\ Committed =>
          LET code == args.list[idx]
              cols == <<code, meta.name, Language, meta.license>>
          IN  /\ \E x \in RowSet(db, "translation") : x.cols = cols
              /\ \A old \in RowSet(dbAtBegin, "translation") :
                    old.cols[1] = code => [id |-> old.id, cols |-> cols] \in RowSet(db, "translation")

C13_Witness ==
    /\ Committed
    /\ \E old \in RowSet(dbAtBegin, "translation") :
          /\ old.cols[1] = args.list[idx]
          /\ old.cols[2] # meta.name
          /\ [id |-> old.id, cols |-> <<args.list[idx], meta.name, Language, meta.license>>]
                \in RowSet(db, "translation")

\* C14: in the committed database every book belongs to one translation and
\* its book_number is unique within that translation, and every
\* chapter_number is unique within its book.
C14_UniqueOrdinals ==
    /\ \A b \in RowSet(db, "book") :
          Cardinality({ t \in RowSet(db, "translation") : t.id = b.cols[1] }) = 1
    /\ \A x, y \in RowSet(db, "book") :
          (x.cols[1] = y.cols[1] /\ x.cols[3] = y.cols[3]) => x = y
    /\ \A x, y \in RowSet(db, "chapter") :
          (x.cols[1] = y.cols[1] /\ x.cols[2] = y.cols[2]) => x = y

\* The contents of the four tables without the generated ids: each
\* translation with its books, each book with its chapters, each chapter with
\* its verses.
VerseContent(d, chapterId) ==
    { <<v.cols[2], v.cols[3]>> : v \in { x \in RowSet(d, "verse") : x.cols[1] = chapterId } }
ChapterContent(d, bookId) ==
    { <<c.cols[2], VerseContent(d, c.id)>> : c \in { x \in RowSet(d, "chapter") : x.cols[1] = bookId } }
BookContent(d, translationId) ==
    { <<b.cols[2], b.cols[3], ChapterContent(d, b.id)>> :
        b \in { x \in RowSet(d, "book") : x.cols[1] = translationId } }
Content(d) == { <<t.cols, BookContent(d, t.id)>> : t \in RowSet(d, "translation") }

\* The database after the script of the translation at idx has been run on
\* the contents the direct import started from.
ScriptResult == RunScript(dbAtBegin, generatePostgreSQL(args.list[idx], srcDoc, meta).lines)

\* C15: the direct import of a document and the execution of the script
\* generated for it, applied to the same database, leave the same contents in
\* the four tables, ids apart.
C15_RoundTrip ==
    (Committed /\ generatePostgreSQL(args.list[idx], srcDoc, meta).ok) =>
        Content(db) = Content(ScriptResult)

(***************************************************************************)
(* Properties of the delete utility                                        *)
(***************************************************************************)
\* C16: the DELETE of deleteTranslation(code) removes from the four tables
\* the translation row of the code and the books, chapters and verses under
\* it, and leaves every other row as it was.
C16_DeleteCascade ==
    [][(pc = "d_delete" /\ pc' = "d_check") =>
          /\ \A t \in {"translation", "book", "chapter", "verse"} :
                RowSet(db', t) = RowSet(db, t) \ DocRows(db, sel.codes[idx])[t]
          /\ db'.rows["cross_references"] = db.rows["cross_references"]]_vars

C16_Witness ==
    /\ tool = "delete"
    /\ pc = "d_check"
    /\ idx = 2
    /\ log[Len(log)].kind = "DELETE" /\ log[Len(log)].ok
    /\ DocRows(dbAtBegin, sel.codes[1]).verse # {}
    /\ DocRows(db, sel.codes[1]) = NoRows
    /\ \E other \in Codes : other # sel.codes[1] /\ DocRows(db, other).verse # {}

(***************************************************************************)
(* Properties of the preconditions and of the file system                  *)
(***************************************************************************)
\* C17: a tool that talks to the backend and finds the user or the password
\* missing ends with exit code 1 having opened no connection, issued no
\* statement and created no directory or file.
C17_CredentialsFirst ==
    (tool \in {"primary", "annotation", "delete"} /\ ~creds) =>
        /\ opened = 0
        /\ log = <<>>
        /\ written = {}
        /\ pc = "exited" => exitCode = 1

\* C18: with --dry-run the script generator writes no file and creates no
\* directory.
C18_DryRunWritesNothing ==
    (tool = "generator" /\ args.dryRun) => written = {}

(***************************************************************************)
(* The scenario of two books of one chapter of three verses                *)
(***************************************************************************)
ScenarioDoc ==
    << Book("Gen", << Chapter(1, Verses(3)) >>), Book("Exo", << Chapter(1, Verses(3)) >>) >>

\* The verse numbers of the source, book after book, chapter after chapter.
ScenarioOrdinals == <<1, 2, 3, 1, 2, 3>>

\* The last n rows of table t.
LastRows(d, t, n) == SubSeq(d.rows[t], Len(d.rows[t]) - n + 1, Len(d.rows[t]))

FailedFlush(i) ==
    /\ log[i].kind = "INSERT"
    /\ log[i].name \in {"cross_references", "verse"}
    /\ ~log[i].ok

\* C20: after a rejected insert of a batched writer the client is sent no
\* further insert and no COMMIT: only the ROLLBACK of the catch block and the
\* end of the connection can follow, and the rows not yet sent never are.
C20_FlushFailureStops ==
    \A i \in 1..Len(log) :
        FailedFlush(i) => \A j \in (i + 1)..Len(log) : log[j].kind \in {"ROLLBACK", "END"}

C20_Witness ==
    /\ tool = "annotation"
    /\ pc = "exited"
    /\ idx <= Len(args.list)
    /\ RowCount(args.list[idx]) > batchSize
    /\ \E i \in 1..Len(log) :
          /\ FailedFlush(i)
          /\ Len(log[i].groups) = batchSize
          /\ i < Len(log)
          /\ \A k \in 1..(i - 1) : log[k].kind # "INSERT"

(***************************************************************************)
(* Properties of the parent links                                          *)
(***************************************************************************)
\* The rows of table t that were inserted after the contents d0.
NewRows(d, d0, t) == LET New(x) == x.id >= d0.next[t] IN SelectSeq(d.rows[t], New)

\* For every chapter of the source, in source order, the index of its book.
RECURSIVE ChapterParents(_, _)
ChapterParents(data, b) ==
    IF b > Len(data) THEN <<>>
    ELSE [c \in 1..Len(data[b].chapters) |-> b] \o ChapterParents(data, b + 1)

\* The chapters of the source, in source order.
RECURSIVE FlatChapters(_, _)
FlatChapters(data, b) ==
    IF b > Len(data) THEN <<>> ELSE data[b].chapters \o FlatChapters(data, b + 1)

\* For every verse of the source, in source order, the index of its chapter
\* among the chapters of the source.
RECURSIVE VerseParents(_, _)
VerseParents(chs, i) ==
    IF i > Len(chs) THEN <<>>
    ELSE [v \in 1..(IF HasVerses(chs[i]) THEN Len(chs[i].verses) ELSE 0) |-> i]
         \o VerseParents(chs, i + 1)

\* The rows added to d since d0 are those of the source data, each chapter
\* row under the book row added for its book and each verse row under the
\* chapter row added for its chapter.
Attached(d, d0, data) ==
    LET nb == NewRows(d, d0, "book")
        nc == NewRows(d, d0, "chapter")
        nv == NewRows(d, d0, "verse")
        cp == ChapterParents(data, 1)
        vp == VerseParents(FlatChapters(data, 1), 1)
    IN  /\ Len(nb) = Len(data)
        /\ Len(nc) = Len(cp)
        /\ Len(nv) = Len(vp)
        /\ \A i \in 1..Len(nc) : nc[i].cols[1] = nb[cp[i]].id
        /\ \A i \in 1..Len(nv) : nv[i].cols[1] = nc[vp[i]].id

\* The generator has written the script of the translation.
ScriptWritten ==
    /\ tool = "generator"
    /\ pc = "exited"
    /\ \E f \in written : f.path = SqlPath(args.list[1])

TheScript == (CHOOSE f \in written : f.path = SqlPath(args.list[1])).content

\* The direct importer attaches by the ids its inserts returned.
DirectAttached == Committed => Attached(db, dbAtBegin, srcDoc)

\* The script, run on the database, attaches by the ids the tables generated
\* (the script drops the tables first, so every row it leaves is a new row).
ScriptAttached == ScriptWritten => Attached(RunScript(db, TheScript), EmptyDB, srcDoc)

\* C21: in both output modes, whatever the document (two books of one name
\* included) and whether or not its code was imported before, every chapter
\* row is attached to the book row created in the same run for its book and
\* every verse row to the chapter row created for its chapter.
C21_ParentIds == DirectAttached /\ ScriptAttached

(***************************************************************************)
(* Properties of the schema definition                                     *)
(***************************************************************************)
\* The statements of a script that define the schema.
SchemaLines(lines) ==
    LET IsSchema(l) == l.kind \in {"DROP", "CREATE", "INDEX"} IN SelectSeq(lines, IsSchema)

\* Contents d keeps everything d0 had: its objects, its rows, its sequences.
Keeps(d, d0) ==
    /\ d0.objects \subseteq d.objects
    /\ d.rows = d0.rows
    /\ d.next = d0.next

\* The CREATE TABLE IF NOT EXISTS statements of the direct importer are done.
DirectSchemaKeeps == (tool = "primary" /\ pc = "p_upsert") => Keeps(tx, dbAtBegin)

\* The CREATE ... IF NOT EXISTS statements of the annotation importer are done.
XrefSchemaKeeps ==
    (tool = "annotation" /\ pc = "x_file" /\ idx = 1) => Keeps(tx, db)

\* The schema statements of the generated script, run on the database.
ScriptSchemaKeeps ==
    ScriptWritten => Keeps(RunScript(db, SchemaLines(TheScript)), db)

\* C22: in both output modes the schema definition applied to a database
\* that has the schema already leaves the tables and every row in them,
\* those of other translations included, as they were.
C22_CreateIfAbsent == DirectSchemaKeeps /\ XrefSchemaKeeps /\ ScriptSchemaKeeps

(***************************************************************************)
(* Properties of the batch state of insertCrossReferences                  *)
(***************************************************************************)
\* The file a column value was read from.
FileOf(v) == v \div 100000

RECURSIVE StatementsUpTo(_)
StatementsUpTo(n) ==
    IF n = 0 THEN 0 ELSE StatementsUpTo(n - 1) + CeilDiv(RowCount(args.list[n]), batchSize)

RowGroups(ss) == [i \in 1..Len(ss) |-> ss[i].groups]

\* C23: the batch of insertCrossReferences belongs to one invocation.  No
\* insert statement of the annotation importer has zero rows or rows of two
\* files; when the invocations for the files before idx have returned without
\* error, every row of those files has been sent (nothing is pending) and
\* the statements issued number the sum of ceil(L_i / 100).
C23_BatchStateLocal ==
    /\ tool = "annotation" =>
          \A i \in 1..Len(log) :
              (log[i].kind = "INSERT" /\ log[i].name = "cross_references") =>
                  /\ Len(log[i].groups) > 0
                  /\ \A p \in 1..Len(log[i].params) :
                        FileOf(log[i].params[p]) = FileOf(log[i].params[1])
    /\ XReturnedOK =>
          /\ SumLen(RowGroups(Inserts("cross_references"))) = RowsUpTo(idx - 1)
          /\ Len(Inserts("cross_references")) = StatementsUpTo(idx - 1)

C23_Witness ==
    /\ XReturnedOK
    /\ idx = 3
    /\ \E i, j \in 1..Len(log) :
          /\ log[i].kind = "INSERT" /\ log[j].kind = "INSERT"
          /\ Len(log[i].groups) < batchSize
          /\ FileOf(log[i].params[1]) = 1
          /\ FileOf(log[j].params[1]) = 2

(***************************************************************************)
(* Properties of what the delete utility deletes                           *)
(***************************************************************************)
\* The DELETE statements the utility has issued.
Deletes == { i \in 1..Len(log) : log[i].kind = "DELETE" }

\* The confirmation was answered yes or y.
Confirmed == ToLowerCase(sel.confirm) \in {"yes", "y"}

\* The codes of the listed translations that the answer names by a number in
\* 1 .. number of listed translations.
Chosen ==
    { sel.translations[sel.answer.nums[k]] :
        k \in { j \in 1..Len(sel.answer.nums) : sel.answer.nums[j] \in 1..Len(sel.translations) } }

\* C24: the delete utility issues a DELETE only for the code of the existence
\* check that precedes it, and only when that check found the code; in
\* interactive mode a DELETE is issued only after the confirmation was
\* answered yes or y and only for entries chosen by a number in 1 .. number
\* of listed translations; after q, no valid number or a declined
\* confirmation nothing is deleted and the database is as it was.
C24_DeleteOnlyFound ==
    tool = "delete" =>
        /\ \A i \in Deletes :
              /\ i > 1
              /\ log[i - 1].kind = "SELECT" /\ log[i - 1].ok
              /\ log[i - 1].params = log[i].params
        /\ pc = "d_delete" => TranslationIds(tx, sel.codes[idx]) # {}
        /\ Deletes = {} => db = dbAtBegin
        /\ args.list = <<>> =>
              /\ Deletes # {} => (Confirmed /\ ~sel.answer.quit)
              /\ \A i \in Deletes : log[i].params[1] \in Chosen
              /\ ~Confirmed => (Deletes = {} /\ db = dbAtBegin)

C24_Witness ==
    /\ tool = "delete"
    /\ pc = "exited"
    /\ args.list = <<>>
    /\ sel.answer.nums = <<2, 0>>
    /\ sel.confirm = "Y"
    /\ \E i \in Deletes : log[i].ok /\ log[i].params = <<"B">>
    /\ DocRows(dbAtBegin, "B").verse # {}
    /\ DocRows(db, "B") = NoRows
    /\ DocRows(db, "A") = DocRows(dbAtBegin, "A")
    /\ DocRows(db, "A").verse # {}

(***************************************************************************)
(* Properties of a failed import                                           *)
(***************************************************************************)
\* The rows of the translation, book, chapter and verse tables.
TextRows(d) == [t \in {"translation", "book", "chapter", "verse"} |-> d.rows[t]]

\* C25: an import of the direct importer that failed, whatever the statement
\* that failed and whatever the database held (the same code imported and
\* committed earlier included), leaves the rows of the translation, book,
\* chapter and verse tables as they were before its BEGIN: the translation
\* row is not updated and no child row is added or removed.
C25_FailedImportFrame ==
    (tool = "primary" /\ err # NoError) =>
        /\ TextRows(db) = TextRows(dbAtBegin)
        /\ db.objects = dbAtBegin.objects

C25_Witness ==
    /\ ImportFailed
    /\ thrown[1] = "query"
    /\ log[thrown[2]].kind = "INSERT" /\ log[thrown[2]].name = "verse"
    /\ \E j \in 1..Len(log) : log[j].kind = "ROLLBACK" /\ ~log[j].ok
    /\ \E old \in RowSet(dbAtBegin, "translation") :
          /\ old.cols[1] = LastFailed
          /\ old \in RowSet(db, "translation")
          /\ \E i \in 1..Len(log) :
                log[i].kind = "UPSERT" /\ log[i].ok /\ log[i].params[2] # old.cols[2]
    /\ DocRows(dbAtBegin, LastFailed).verse # {}

====
